---- MODULE Spec2Model ----
(***************************************************************************)
(* A model of aicspylibczi's CziFile (src/aicspylibczi/CziFile.py): the    *)
(* Python accessor over the native CZI reader.  The state is one CziFile   *)
(* object, the file system entries it touches and the outcome of the call  *)
(* in progress; there is one action per method.                            *)
(***************************************************************************)
EXTENDS Integers, Sequences, FiniteSets, TLC

VARIABLES
    phase,          \* "unopened" | "open" | "failed" (__init__ raised) | "dead"
    handle,         \* the file opened by convert_to_buffer: "none" | "open" | "closed"
    isMosaic,       \* what the native reader.is_mosaic() answers
    bbox,           \* what the native reader.mosaic_shape() answers
    metaDoc,        \* the container's metadata block (what reader.read_meta() serialises)
    meta_root,      \* self.meta_root: None or the parsed element
    metafile_out,   \* self.metafile_out
    exportFile,     \* content of the file at the export path, or NoFile
    nReadMeta,      \* number of native read_meta() calls made on this object
    nAccess,        \* number of accesses to the meta property
    call            \* the call that has just completed, or NoCall

vars == <<phase, handle, isMosaic, bbox, metaDoc, meta_root, metafile_out,
          exportFile, nReadMeta, nAccess, call>>

----
\* Bounds of the model.
MaxKwargs == 2      \* keyword constraints per call
MaxIndex == 1       \* constraint values are -1 .. MaxIndex
MaxNodes == 2       \* nodes under the metadata root
MaxAccess == 2      \* accesses to meta per object
NativeExtent == 2   \* extent of each native axis of the modelled container

None == "None"
NoRoot == [id |-> 0, nodes |-> <<>>]            \* meta_root = None
NoFile == [exists |-> FALSE, text |-> <<>>]     \* no file at the export path
NoCall == [op |-> "none"]

----
\* ZISRAW_DIMS, the axis alphabet.
ZISRAW_DIMS == {"Z", "C", "T", "R", "S", "I", "H", "V", "B"}

----
\* The sources __init__ is given: a Python type and, for a path, what the
\* file system holds at it.
PathTypes == {"str", "Path"}
OtherTypes == {"bytes", "BytesIO", "BufferedReader", "ndarray",
               "bytearray", "FileIO", "int"}
FsStates == {"missing", "directory", "file", "unreadable"}
Sources == [type : PathTypes, fs : FsStates] \cup [type : OtherTypes, fs : {"n/a"}]

Raise(e) == [raises |-> e, buffer |-> None, opened |-> FALSE]
Buffer(b, o) == [raises |-> None, buffer |-> b, opened |-> o]

\* A faulty variant: the io.BufferedReader branch is missing.
convert_to_buffer_no_reader(file) ==
    IF file.type \in {"str", "Path"}
    THEN IF file.fs = "missing" THEN Raise("FileNotFoundError")
         ELSE IF file.fs = "directory" THEN Raise("IsADirectoryError")
         ELSE IF file.fs = "unreadable" THEN Raise("PermissionError")
         ELSE Buffer("file", TRUE)
    ELSE IF file.type \in {"bytes", "BytesIO"} THEN Buffer("BytesIO", FALSE)
    ELSE IF file.type = "ndarray" THEN Buffer("ndarray", FALSE)
    ELSE Raise("TypeError")

\* CziFile.convert_to_buffer: the stream handed to the native Reader, or the
\* exception raised.  opened: the call itself opened a file handle.
convert_to_buffer(file) ==
    IF file.type \in {"str", "Path"}
    THEN IF file.fs = "missing" THEN Raise("FileNotFoundError")   \* resolve(strict=True)
         ELSE IF file.fs = "directory" THEN Raise("IsADirectoryError")
         ELSE IF file.fs = "unreadable" THEN Raise("PermissionError") \* open(f, "rb")
         ELSE Buffer("file", TRUE)
    ELSE IF file.type = "bytes" THEN Buffer("BytesIO", FALSE)
    ELSE IF file.type = "BytesIO" THEN Buffer("BytesIO", FALSE)
    ELSE IF file.type = "BufferedReader" THEN Buffer("BufferedReader", FALSE)
    ELSE IF file.type = "ndarray" THEN Buffer("ndarray", FALSE)
    ELSE Raise("TypeError")

----
\* The metadata document: the nodes under the root element, each a leaf
\* element with a text or a whitespace-only text node.
Texts == {"", "t", "e-acute"}
Elem(t) == [kind |-> "elem", text |-> t]
Ws == [kind |-> "ws", text |-> ""]
Nodes == {Elem(t) : t \in Texts} \cup {Ws}
NodeSeqs(n) == UNION {[1..k -> Nodes] : k \in 0..n}
\* adjacent whitespace is one text node
WellFormed(d) == \A i \in 1..(Len(d) - 1) : ~(d[i] = Ws /\ d[i + 1] = Ws)
Docs(n) == {d \in NodeSeqs(n) : WellFormed(d)}
BasicDocs == {<<>>, <<Elem("t")>>}

RECURSIVE Flatten(_)
Flatten(ss) == IF ss = <<>> THEN <<>> ELSE Head(ss) \o Flatten(Tail(ss))

\* A serialisation is a sequence of tokens.  The container stores UTF-8 text;
\* etree.tostring without an encoding writes ASCII with character references.
CharRef(t) == IF t = "e-acute" THEN "&#233;" ELSE t
UnCharRef(t) == IF t = "&#233;" THEN "e-acute" ELSE t
ElemTokens(n, ascii) ==
    IF n.kind = "ws" THEN <<" ">>
    ELSE IF n.text = "" THEN <<"<e/>">>
    ELSE <<"<e>", IF ascii THEN CharRef(n.text) ELSE n.text, "</e>">>

\* etree.tostring(element, pretty_print): indentation is added only where an
\* element has no text node among its children.
tostring(nodes, pretty_print) ==
    LET indent == pretty_print /\ \A i \in 1..Len(nodes) : nodes[i].kind = "elem"
        nl == IF pretty_print THEN <<"\n">> ELSE <<>>
    IN  IF nodes = <<>> THEN <<"<root/>">> \o nl
        ELSE <<"<root>">>
             \o Flatten([i \in 1..Len(nodes) |->
                    (IF indent THEN <<"\n  ">> ELSE <<>>) \o ElemTokens(nodes[i], TRUE)])
             \o (IF indent THEN <<"\n">> ELSE <<>>)
             \o <<"</root>">> \o nl

\* reader.read_meta(): the metadata block as stored, UTF-8.
NativeReadMeta(doc) ==
    IF doc = <<>> THEN <<"<root/>">>
    ELSE <<"<root>">> \o Flatten([i \in 1..Len(doc) |-> ElemTokens(doc[i], FALSE)])
         \o <<"</root>">>

RECURSIVE ParseNodes(_, _)
ParseNodes(toks, i) ==
    IF i > Len(toks) \/ toks[i] = "</root>" THEN <<>>
    ELSE IF toks[i] = "<e/>" THEN <<Elem("")>> \o ParseNodes(toks, i + 1)
    ELSE IF toks[i] = "<e>" THEN <<Elem(UnCharRef(toks[i + 1]))>> \o ParseNodes(toks, i + 3)
    ELSE <<Ws>> \o ParseNodes(toks, i + 1)

\* etree.fromstring: the nodes under the root.
fromstring(toks) == IF toks[1] = "<root/>" THEN <<>> ELSE ParseNodes(toks, 2)

\* The document without the whitespace-only text nodes pretty-printing adds.
StripWs(nodes) == SelectSeq(nodes, LAMBDA n : n.kind = "elem")

\* bool(element) in lxml: whether the element has child elements.
ElementBool(root) == \E i \in 1..Len(root.nodes) : root.nodes[i].kind = "elem"
\* bool(self.meta_root): None is false, an element is what lxml says.
Truthy(v) == v.id # 0 /\ ElementBool(v)

----
\* Keyword constraints: a function from the keys given to their values.
InputKeys == {"Z", "S", "C", "M", "X"}
IndexVals == 0..MaxIndex
Kwargs == UNION {[K -> IndexVals] :
                    K \in {S \in SUBSET InputKeys : Cardinality(S) <= MaxKwargs}}

\* IntRect as the binding constructs it.
IntRect(x, y, w, h) == [x |-> x, y |-> y, w |-> w, h |-> h]
BBoxes == {IntRect(0, 0, 4, 3), IntRect(-2, 1, 6, 5)}

NoRegion == [given |-> FALSE, t |-> <<>>]
Regions == {NoRegion} \cup
           {[given |-> TRUE, t |-> t] :
               t \in {<<0, 0, -1, -1>>, <<1, 2, 3, 4>>, <<>>, <<1, 2, 3>>, <<1, 2, 3, 4, 5>>}}
ScaleFactors == {"0.1", "1.0"}

NativeCall(fn, args) == [fn |-> fn, args |-> args]
Calls(log, fn) == SelectSeq(log, LAMBDA c : c.fn = fn)

\* The record of a completed call.
Returned(op, args, result, native) ==
    [op |-> op, args |-> args, outcome |-> "return", error |-> None,
     result |-> result, native |-> native]
Raised(op, args, error, native) ==
    [op |-> op, args |-> args, outcome |-> "raise", error |-> error,
     result |-> None, native |-> native]

----
\* The native reader, as far as the wrapper's contract needs it.
NativeDims == <<"S", "Z">>
SpatialShape == <<<<"Y", 3>>, <<"X", 4>>>>
NativeAxes == {NativeDims[i] : i \in 1..Len(NativeDims)}

NativeMatches(coord, m) ==
    /\ \A k \in DOMAIN coord : k \in NativeAxes /\ coord[k] \in 0..(NativeExtent - 1)
    /\ m = -1 \/ m \in 0..(NativeExtent - 1)

\* reader.read_selected(plane_constraints, m_index)
NativeReadSelected(coord, m) ==
    IF ~NativeMatches(coord, m)
    THEN [raises |-> "PylibCZI_NoMatchingData", image |-> None, shape |-> None]
    ELSE LET free == SelectSeq(NativeDims, LAMBDA a : a \notin DOMAIN coord)
             shape == [i \in 1..Len(free) |-> <<free[i], NativeExtent>>] \o SpatialShape
         IN  [raises |-> None,
              image |-> [shape |-> [i \in 1..Len(shape) |-> shape[i][2]],
                         of |-> <<coord, m>>],
              shape |-> shape]

\* reader.read_meta_from_subblock(plane_constraints, m_index)
NativeReadMetaFromSubblock(coord, m) ==
    IF ~NativeMatches(coord, m)
    THEN [raises |-> "PylibCZI_NoMatchingData", strings |-> None]
    ELSE [raises |-> None, strings |-> <<coord, m>>]

\* reader.read_mosaic(plane_constraints, scale_factor, region): the region
\* with w = h = -1 stands for the full mosaic bounding box.
NativeReadMosaic(coord, scale_factor, region, nativeOk) ==
    IF ~isMosaic /\ ~nativeOk
    THEN [raises |-> "NativeError", img |-> None]
    ELSE IF ~NativeMatches(coord, -1)
    THEN [raises |-> "PylibCZI_NoMatchingData", img |-> None]
    ELSE IF DOMAIN coord # NativeAxes
    THEN [raises |-> "AmbiguousMosaicQuery", img |-> None]
    ELSE [raises |-> None,
          img |-> [dest |-> IF region.w = -1 /\ region.h = -1 THEN bbox ELSE region,
                   scale |-> scale_factor, of |-> coord]]

----
\* A faulty variant: every key is set on the coordinate.
plane_constraints_all(kwargs) == kwargs

\* plane_constraints = DimCoord() with set_dim(k, v) for the keys in ZISRAW_DIMS.
plane_constraints(kwargs) ==
    [k \in (DOMAIN kwargs) \cap ZISRAW_DIMS |-> kwargs[k]]

\* A faulty variant: M is taken without asking is_mosaic().
get_m_index_unchecked(kwargs) ==
    IF "M" \in DOMAIN kwargs
    THEN [raises |-> None, m_index |-> kwargs["M"], native |-> <<>>]
    ELSE [raises |-> None, m_index |-> -1, native |-> <<>>]

\* CziFile._get_m_index_from_kwargs
get_m_index_from_kwargs(kwargs) ==
    IF "M" \in DOMAIN kwargs
    THEN IF ~isMosaic
         THEN [raises |-> "PylibCZI_CDimCoordinatesOverspecifiedException",
               m_index |-> -1, native |-> <<NativeCall("is_mosaic", <<>>)>>]
         ELSE [raises |-> None, m_index |-> kwargs["M"],
               native |-> <<NativeCall("is_mosaic", <<>>)>>]
    ELSE [raises |-> None, m_index |-> -1, native |-> <<>>]

Reverse(q) == [i \in 1..Len(q) |-> q[Len(q) + 1 - i]]

\* A faulty variant: the Shape Descriptor is returned in reverse order.
read_image_reversed(kwargs) ==
    LET coord == plane_constraints(kwargs)
        m == get_m_index_from_kwargs(kwargs)
        r == NativeReadSelected(coord, m.m_index)
        log == m.native \o <<NativeCall("read_selected", <<coord, m.m_index>>)>>
    IN  IF m.raises # None THEN Raised("read_image", kwargs, m.raises, m.native)
        ELSE IF r.raises # None THEN Raised("read_image", kwargs, r.raises, log)
        ELSE Returned("read_image", kwargs, <<r.image, Reverse(r.shape)>>, log)

\* A faulty variant: M is validated after the native read.
read_image_late_check(kwargs) ==
    LET coord == plane_constraints(kwargs)
        m == get_m_index_from_kwargs(kwargs)
        r == NativeReadSelected(coord, m.m_index)
        log == m.native \o <<NativeCall("read_selected", <<coord, m.m_index>>)>>
    IN  IF r.raises # None THEN Raised("read_image", kwargs, r.raises, log)
        ELSE IF m.raises # None THEN Raised("read_image", kwargs, m.raises, log)
        ELSE Returned("read_image", kwargs, <<r.image, r.shape>>, log)

\* CziFile.read_image(**kwargs)
read_image(kwargs) ==
    LET coord == plane_constraints(kwargs)
        m == get_m_index_from_kwargs(kwargs)
        r == NativeReadSelected(coord, m.m_index)
        log == m.native \o <<NativeCall("read_selected", <<coord, m.m_index>>)>>
    IN  IF m.raises # None THEN Raised("read_image", kwargs, m.raises, m.native)
        ELSE IF r.raises # None THEN Raised("read_image", kwargs, r.raises, log)
        ELSE Returned("read_image", kwargs, <<r.image, r.shape>>, log)

\* CziFile.read_subblock_metadata(**kwargs)
read_subblock_metadata(kwargs) ==
    LET coord == plane_constraints(kwargs)
        m == get_m_index_from_kwargs(kwargs)
        r == NativeReadMetaFromSubblock(coord, m.m_index)
        log == m.native \o <<NativeCall("read_meta_from_subblock", <<coord, m.m_index>>)>>
    IN  IF m.raises # None THEN Raised("read_subblock_metadata", kwargs, m.raises, m.native)
        ELSE IF r.raises # None THEN Raised("read_subblock_metadata", kwargs, r.raises, log)
        ELSE Returned("read_subblock_metadata", kwargs, r.strings, log)

\* A faulty variant: the native mosaic_shape() is asked whatever the container.
read_mosaic_size_unguarded ==
    Returned("read_mosaic_size", <<>>, bbox,
             <<NativeCall("is_mosaic", <<>>), NativeCall("mosaic_shape", <<>>)>>)

\* CziFile.read_mosaic_size()
read_mosaic_size ==
    IF ~isMosaic
    THEN Returned("read_mosaic_size", <<>>, IntRect(0, 0, -1, -1),
                  <<NativeCall("is_mosaic", <<>>)>>)
    ELSE Returned("read_mosaic_size", <<>>, bbox,
                  <<NativeCall("is_mosaic", <<>>), NativeCall("mosaic_shape", <<>>)>>)

\* A faulty variant: width and height are taken from the wrong components.
mosaic_region_swapped(region) ==
    IF ~region.given
    THEN [raises |-> None, rect |-> IntRect(0, 0, -1, -1)]
    ELSE IF Len(region.t) # 4
    THEN [raises |-> "AssertionError", rect |-> IntRect(0, 0, 0, 0)]
    ELSE [raises |-> None,
          rect |-> IntRect(region.t[1], region.t[2], region.t[4], region.t[3])]

\* The IntRect read_mosaic hands to the native reader, when it hands one.
mosaic_region(region) ==
    IF ~region.given
    THEN [raises |-> None, rect |-> IntRect(0, 0, -1, -1)]
    ELSE IF Len(region.t) # 4
    THEN [raises |-> "AssertionError", rect |-> IntRect(0, 0, 0, 0)]
    ELSE [raises |-> None,
          rect |-> IntRect(region.t[1], region.t[2], region.t[3], region.t[4])]

\* CziFile.read_mosaic(region, scale_factor, **kwargs)
read_mosaic(region, scale_factor, kwargs, nativeOk) ==
    LET coord == plane_constraints(kwargs)
        args == [region |-> region, scale_factor |-> scale_factor, kwargs |-> kwargs]
        rg == mosaic_region(region)
        r == NativeReadMosaic(coord, scale_factor, rg.rect, nativeOk)
        log == <<NativeCall("read_mosaic", <<coord, scale_factor, rg.rect>>)>>
    IN  IF rg.raises # None THEN Raised("read_mosaic", args, rg.raises, <<>>)
        ELSE IF r.raises # None THEN Raised("read_mosaic", args, r.raises, log)
        ELSE Returned("read_mosaic", args, r.img, log)

----
\* A faulty variant: the export is written only when the document is parsed.
meta_export_when_parsed(writeOk) ==
    LET fresh == ~Truthy(meta_root)
        root == IF fresh
                THEN [id |-> nReadMeta + 1, nodes |-> fromstring(NativeReadMeta(metaDoc))]
                ELSE meta_root
        log == IF fresh THEN <<NativeCall("read_meta", <<>>)>> ELSE <<>>
        export == fresh /\ metafile_out # ""
    IN  [meta_root |-> root,
         nReadMeta |-> nReadMeta + Len(log),
         exportFile |-> IF export /\ writeOk
                        THEN [exists |-> TRUE, text |-> tostring(root.nodes, TRUE)]
                        ELSE exportFile,
         call |-> IF export /\ ~writeOk
                  THEN Raised("meta", <<>>, "OSError", log)
                  ELSE Returned("meta", <<>>, root, log)]

\* CziFile.meta (property): the completed call and the new values of
\* meta_root, nReadMeta and the export file.  writeOk: open(metafile_out, "w")
\* succeeds.
meta(writeOk) ==
    LET fresh == ~Truthy(meta_root)
        root == IF fresh
                THEN [id |-> nReadMeta + 1, nodes |-> fromstring(NativeReadMeta(metaDoc))]
                ELSE meta_root
        log == IF fresh THEN <<NativeCall("read_meta", <<>>)>> ELSE <<>>
        export == metafile_out # ""
    IN  [meta_root |-> root,
         nReadMeta |-> nReadMeta + Len(log),
         exportFile |-> IF export /\ writeOk
                        THEN [exists |-> TRUE, text |-> tostring(root.nodes, TRUE)]
                        ELSE exportFile,
         call |-> IF export /\ ~writeOk
                  THEN Raised("meta", <<>>, "OSError", log)
                  ELSE Returned("meta", <<>>, root, log)]

----
MetafileOuts == {"", "out.xml"}
StaleFile == [exists |-> TRUE, text |-> <<"<stale/>">>]

Init ==
    /\ phase = "unopened"
    /\ handle = "none"
    /\ isMosaic = FALSE
    /\ bbox = IntRect(0, 0, 0, 0)
    /\ metaDoc = <<>>
    /\ meta_root = NoRoot
    /\ metafile_out = ""
    /\ exportFile \in {NoFile, StaleFile}
    /\ nReadMeta = 0
    /\ nAccess = 0
    /\ call = NoCall

\* CziFile.__init__(czi_filename, metafile_out) on a container holding one of
\* docs as its metadata block.  readerOk: the native Reader accepts the stream.
Open(docs) ==
    /\ phase = "unopened"
    /\ \E file \in Sources, out \in MetafileOuts, readerOk \in BOOLEAN :
        LET buf == convert_to_buffer(file)
            args == [czi_filename |-> file, metafile_out |-> out]
        IN  IF buf.raises # None
            THEN /\ phase' = "failed"
                 /\ call' = Raised("__init__", args, buf.raises, <<>>)
                 /\ UNCHANGED <<handle, isMosaic, bbox, metaDoc, meta_root, metafile_out>>
            ELSE IF ~readerOk
            THEN /\ phase' = "failed"
                 /\ handle' = IF buf.opened THEN "open" ELSE "none"
                 /\ metafile_out' = out
                 /\ call' = Raised("__init__", args, "NativeError",
                                   <<NativeCall("Reader", <<buf.buffer>>)>>)
                 /\ UNCHANGED <<isMosaic, bbox, metaDoc, meta_root>>
            ELSE /\ phase' = "open"
                 /\ handle' = IF buf.opened THEN "open" ELSE "none"
                 /\ metafile_out' = out
                 /\ meta_root' = NoRoot
                 /\ isMosaic' \in BOOLEAN
                 /\ bbox' \in BBoxes
                 /\ metaDoc' \in docs
                 /\ call' = Returned("__init__", args, buf.buffer,
                                     <<NativeCall("Reader", <<buf.buffer>>)>>)
    /\ UNCHANGED <<exportFile, nReadMeta, nAccess>>

Idle == phase = "open" /\ call.op = "none"

Meta ==
    /\ Idle
    /\ nAccess < MaxAccess
    /\ \E writeOk \in BOOLEAN :
        LET r == meta(writeOk)
        IN  /\ meta_root' = r.meta_root
            /\ nReadMeta' = r.nReadMeta
            /\ exportFile' = r.exportFile
            /\ call' = r.call
    /\ nAccess' = nAccess + 1
    /\ UNCHANGED <<phase, handle, isMosaic, bbox, metaDoc, metafile_out>>

ReadImage ==
    /\ Idle
    /\ \E kwargs \in Kwargs : call' = read_image(kwargs)
    /\ UNCHANGED <<phase, handle, isMosaic, bbox, metaDoc, meta_root, metafile_out,
                   exportFile, nReadMeta, nAccess>>

ReadSubblockMetadata ==
    /\ Idle
    /\ \E kwargs \in Kwargs : call' = read_subblock_metadata(kwargs)
    /\ UNCHANGED <<phase, handle, isMosaic, bbox, metaDoc, meta_root, metafile_out,
                   exportFile, nReadMeta, nAccess>>

ReadMosaicSize ==
    /\ Idle
    /\ call' = read_mosaic_size
    /\ UNCHANGED <<phase, handle, isMosaic, bbox, metaDoc, meta_root, metafile_out,
                   exportFile, nReadMeta, nAccess>>

ReadMosaic ==
    /\ Idle
    /\ \E region \in Regions, scale_factor \in ScaleFactors, kwargs \in Kwargs,
          nativeOk \in BOOLEAN :
        call' = read_mosaic(region, scale_factor, kwargs, nativeOk)
    /\ UNCHANGED <<phase, handle, isMosaic, bbox, metaDoc, meta_root, metafile_out,
                   exportFile, nReadMeta, nAccess>>

\* The caller takes the outcome of the completed call and goes on.
Resume ==
    /\ call.op # "none"
    /\ call' = NoCall
    /\ UNCHANGED <<phase, handle, isMosaic, bbox, metaDoc, meta_root, metafile_out,
                   exportFile, nReadMeta, nAccess>>

\* The last reference to the object goes away.  CziFile has no close(),
\* __del__ or __exit__: the handle is closed when the runtime finalises the
\* file object, at once (prompt) or at a later collection.
Drop ==
    /\ phase \in {"open", "failed"}
    /\ call.op = "none"
    /\ phase' = "dead"
    /\ \E prompt \in BOOLEAN :
        handle' = IF handle = "open" /\ prompt THEN "closed" ELSE handle
    /\ UNCHANGED <<isMosaic, bbox, metaDoc, meta_root, metafile_out,
                   exportFile, nReadMeta, nAccess, call>>

Finalize ==
    /\ phase = "dead"
    /\ handle = "open"
    /\ handle' = "closed"
    /\ UNCHANGED <<phase, isMosaic, bbox, metaDoc, meta_root, metafile_out,
                   exportFile, nReadMeta, nAccess, call>>

Next ==
    \/ Open(BasicDocs)
    \/ Meta
    \/ ReadImage
    \/ ReadSubblockMetadata
    \/ ReadMosaicSize
    \/ ReadMosaic
    \/ Resume
    \/ Drop
    \/ Finalize

Spec == Init /\ [][Next]_vars

\* The metadata accessor over every metadata document up to MaxNodes nodes.
NextMeta ==
    \/ Open(Docs(MaxNodes))
    \/ Meta
    \/ Resume
    \/ Drop
    \/ Finalize

SpecMeta == Init /\ [][NextMeta]_vars

----
\* The claims.
Overspecified == "PylibCZI_CDimCoordinatesOverspecifiedException"
NoMatchingData == "PylibCZI_NoMatchingData"
ConstrainedOps == {"read_image", "read_subblock_metadata", "read_mosaic"}
ValidatedOps == {"read_image", "read_subblock_metadata"}
KwargsOf(c) == IF c.op = "read_mosaic" THEN c.args.kwargs ELSE c.args
NativeRead(c) ==
    Calls(c.native, IF c.op = "read_image" THEN "read_selected"
                    ELSE IF c.op = "read_subblock_metadata" THEN "read_meta_from_subblock"
                    ELSE "read_mosaic")
MOnNonMosaic(c) == "M" \in DOMAIN KwargsOf(c) /\ ~isMosaic

\* C1 (as stated): on a non-mosaic container every operation taking dimension
\* constraints, read_mosaic included, answers a constraint M with the
\* overspecified-coordinate error.
C1_MAlwaysOverspecified ==
    (call.op \in ConstrainedOps /\ MOnNonMosaic(call))
        => (call.outcome = "raise" /\ call.error = Overspecified)

\* C1 (amended): read_image and read_subblock_metadata answer M on a non-mosaic
\* container with the overspecified-coordinate error and read nothing;
\* read_mosaic drops M like any key outside ZISRAW_DIMS and, given a usable
\* region, calls the native read_mosaic with a coordinate that has no M.
C1_MOverspecifiedInQueries ==
    /\ (call.op \in ValidatedOps /\ MOnNonMosaic(call))
          => /\ call.outcome = "raise"
             /\ call.error = Overspecified
             /\ NativeRead(call) = <<>>
    /\ (call.op = "read_mosaic" /\ "M" \in DOMAIN KwargsOf(call)
          /\ (call.args.region.given => Len(call.args.region.t) = 4))
          => /\ Len(NativeRead(call)) = 1
             /\ "M" \notin DOMAIN NativeRead(call)[1].args[1]
             /\ (call.outcome = "raise" => call.error # Overspecified)

C1_Witness ==
    /\ call.op = "read_image"
    /\ MOnNonMosaic(call)
    /\ call.outcome = "raise"
    /\ call.error = Overspecified

----
\* The classes of source the interface names.
IsPath(f) == f.type \in {"str", "Path"}
IsByteBuffer(f) == f.type \in {"bytes", "BytesIO", "bytearray", "ndarray"}
IsByteStream(f) == f.type \in {"BytesIO", "BufferedReader", "FileIO"}
Converted(c) == Calls(c.native, "Reader") # <<>>
ConversionError(c) == c.outcome = "raise" /\ ~Converted(c)

\* C2 (as stated): a missing path fails not-found, a directory fails
\* IsADirectoryError, a source that is no path, byte buffer or byte stream
\* fails TypeError, and every other source yields a stream handle.
C2_OpenClassifiesAll ==
    call.op = "__init__" =>
        LET f == call.args.czi_filename
        IN  IF IsPath(f) /\ f.fs = "missing"
            THEN ConversionError(call) /\ call.error = "FileNotFoundError"
            ELSE IF IsPath(f) /\ f.fs = "directory"
            THEN ConversionError(call) /\ call.error = "IsADirectoryError"
            ELSE IF ~IsPath(f) /\ ~IsByteBuffer(f) /\ ~IsByteStream(f)
            THEN ConversionError(call) /\ call.error = "TypeError"
            ELSE Converted(call)

\* C2 (amended): a missing path fails not-found, a directory fails
\* IsADirectoryError, a source whose type is none of str, Path, bytes, BytesIO,
\* BufferedReader, ndarray fails TypeError (other buffers and streams too);
\* bytes, BytesIO, BufferedReader and ndarray yield a buffer, and a path to a
\* non-directory yields a stream handle unless opening it for reading fails,
\* and then the operating system's error is raised.
C2_OpenClassifiesByType ==
    call.op = "__init__" =>
        LET f == call.args.czi_filename
        IN  IF IsPath(f)
            THEN CASE f.fs = "missing" ->
                        ConversionError(call) /\ call.error = "FileNotFoundError"
                   [] f.fs = "directory" ->
                        ConversionError(call) /\ call.error = "IsADirectoryError"
                   [] f.fs = "unreadable" ->
                        ConversionError(call) /\ call.error = "PermissionError"
                   [] OTHER ->
                        Converted(call) /\ call.native[1].args = <<"file">>
            ELSE IF f.type \in {"bytes", "BytesIO", "BufferedReader", "ndarray"}
            THEN Converted(call)
            ELSE ConversionError(call) /\ call.error = "TypeError"

C2_Witness ==
    /\ call.op = "__init__"
    /\ call.args.czi_filename.type = "BufferedReader"
    /\ call.outcome = "return"

----
\* C3: read_mosaic_size() returns without raising; on a non-mosaic container
\* exactly (0, 0, -1, -1) with no call of the native mosaic_shape(), on a
\* mosaic container the native bounding box unchanged.
C3_MosaicSizeSentinel ==
    call.op = "read_mosaic_size" =>
        /\ call.outcome = "return"
        /\ ~isMosaic =>
              /\ call.result = [x |-> 0, y |-> 0, w |-> -1, h |-> -1]
              /\ Calls(call.native, "mosaic_shape") = <<>>
        /\ isMosaic => call.result = bbox

C3_Witness ==
    /\ call.op = "read_mosaic_size"
    /\ ~isMosaic
    /\ call.result.w = -1
    /\ bbox.w # -1

----
Alphabet == {"Z", "C", "T", "R", "S", "I", "H", "V", "B"}
NativeErrors == {NoMatchingData, "AmbiguousMosaicQuery", "NativeError"}
UsableRegion(c) ==
    c.op = "read_mosaic" => (c.args.region.given => Len(c.args.region.t) = 4)
\* The coordinate is exactly the pairs of kw whose axis is in the alphabet.
ExactlyAlphabetPairs(coord, kw) ==
    /\ DOMAIN coord = (DOMAIN kw) \cap Alphabet
    /\ \A k \in DOMAIN coord : coord[k] = kw[k]
Forwarded(c) ==
    /\ Len(NativeRead(c)) = 1
    /\ ExactlyAlphabetPairs(NativeRead(c)[1].args[1], KwargsOf(c))
    /\ c.outcome = "raise" => c.error \in NativeErrors
Without(kw, keys) == [k \in (DOMAIN kw) \ keys |-> kw[k]]
\* kw without the keys that are neither in the alphabet nor M.
Known(kw) == Without(kw, (DOMAIN kw) \ (Alphabet \cup {"M"}))
SameOutcome(c, d) ==
    /\ c.outcome = d.outcome
    /\ c.error = d.error
    /\ c.result = d.result

\* C4 (as stated): whatever keys are given, the three operations forward
\* exactly the pairs whose axis is in the nine-symbol alphabet, and no other
\* key causes an error.
C4_OtherKeysNeverFail ==
    (call.op \in ConstrainedOps /\ UsableRegion(call)) => Forwarded(call)

\* C4 (amended): the three operations forward exactly the pairs whose axis is
\* in the nine-symbol alphabet, and a key outside it other than M changes
\* nothing; M on a non-mosaic container makes read_image and
\* read_subblock_metadata fail with nothing forwarded.
C4_OtherKeysIgnoredButM ==
    /\ (call.op \in ConstrainedOps /\ UsableRegion(call)
            /\ ~(call.op \in ValidatedOps /\ MOnNonMosaic(call)))
          => Forwarded(call)
    /\ (call.op \in ValidatedOps /\ MOnNonMosaic(call))
          => (NativeRead(call) = <<>> /\ call.error = Overspecified)
    /\ call.op = "read_image"
          => SameOutcome(call, read_image(Known(call.args)))
    /\ call.op = "read_subblock_metadata"
          => SameOutcome(call, read_subblock_metadata(Known(call.args)))

C4_Witness ==
    /\ call.op = "read_image"
    /\ {"X", "Z"} \subseteq DOMAIN call.args
    /\ call.outcome = "return"

----
\* C5: over any accesses to meta on one object, whatever the metadata
\* document, the native read_meta() is called at most once and every access
\* returns the document parsed first.
C5_MetaParsedOnce ==
    /\ nReadMeta <= 1
    /\ (call.op = "meta" /\ call.outcome = "return") => call.result.id = 1

----
\* C6: with an export path, after an access to meta the file at the path is
\* the serialisation of the document returned and parses back to it, up to
\* the whitespace of pretty-printing; with no export path no step writes the
\* file.
C6_Exported ==
    (call.op = "meta" /\ call.outcome = "return" /\ metafile_out # "") =>
        /\ exportFile.exists
        /\ exportFile.text = tostring(call.result.nodes, TRUE)
        /\ StripWs(fromstring(exportFile.text)) = StripWs(call.result.nodes)
        /\ StripWs(call.result.nodes) = StripWs(metaDoc)

\* C6: the export holds after every access that returns (C6_Exported), and
\* while no export path is configured no step changes the file at the path.
C6_ExportRoundTrip ==
    /\ []C6_Exported
    /\ [][metafile_out' = "" => exportFile' = exportFile]_vars

C6_Witness ==
    /\ call.op = "meta"
    /\ call.outcome = "return"
    /\ metafile_out # ""
    /\ nAccess = 2
    /\ Len(call.result.nodes) = 2
    /\ call.result.nodes[2] = Elem("e-acute")
    /\ Len(exportFile.text) > 6

----
\* C7: the file handle opened for a path source is not open once __init__
\* has failed or the object's lifetime has ended.
C7_HandleReleased == phase \in {"failed", "dead"} => handle # "open"

----
Extents(shape) == [i \in 1..Len(shape) |-> shape[i][2]]

\* C8: read_image with valid constraints returns the native read_selected's
\* pair unchanged, an array whose shape is the extents of the Shape
\* Descriptor in order, or fails with the no-matching-data error.
C8_ImageShapeMatches ==
    (call.op = "read_image" /\ ~MOnNonMosaic(call)) =>
        \/ call.outcome = "raise" /\ call.error = NoMatchingData
        \/ /\ call.outcome = "return"
           /\ Len(NativeRead(call)) = 1
           /\ LET n == NativeRead(call)[1].args
                  r == NativeReadSelected(n[1], n[2])
              IN  /\ call.result = <<r.image, r.shape>>
                  /\ call.result[1].shape = Extents(call.result[2])

C8_Witness ==
    /\ call.op = "read_image"
    /\ call.outcome = "return"
    /\ "S" \in DOMAIN call.args
    /\ call.result[1].shape = <<NativeExtent, 3, 4>>

----
\* C9: read_mosaic without a region reads the full mosaic bounding box, the
\* rectangle read_mosaic_size reports; a region of four components is
\* forwarded component for component; any other region is rejected before
\* the native read_mosaic is called.
C9_MosaicRegion ==
    call.op = "read_mosaic" =>
        LET rg == call.args.region
        IN  /\ ~rg.given =>
                 /\ Len(NativeRead(call)) = 1
                 /\ NativeRead(call)[1].args[3].w = -1
                 /\ NativeRead(call)[1].args[3].h = -1
                 /\ (call.outcome = "return" /\ isMosaic) =>
                        /\ call.result.dest = bbox
                        /\ call.result.dest = read_mosaic_size.result
            /\ (rg.given /\ Len(rg.t) = 4) =>
                 /\ Len(NativeRead(call)) = 1
                 /\ NativeRead(call)[1].args[3] =
                        [x |-> rg.t[1], y |-> rg.t[2], w |-> rg.t[3], h |-> rg.t[4]]
            /\ (rg.given /\ Len(rg.t) # 4) =>
                 /\ call.outcome = "raise"
                 /\ NativeRead(call) = <<>>

C9_Witness ==
    /\ call.op = "read_mosaic"
    /\ ~call.args.region.given
    /\ call.outcome = "return"
    /\ isMosaic
    /\ call.result.dest = bbox

----
FailedValidation(c) ==
    c.op \in ValidatedOps /\ c.outcome = "raise" /\ c.error = Overspecified

\* C10: a read_image or read_subblock_metadata call that fails validation
\* makes no native read and changes nothing of the object, and a query that
\* succeeds returns what the native reader answers for its constraints,
\* whatever failed before it.
C10_NoPartialResult ==
    /\ [][FailedValidation(call') =>
            /\ NativeRead(call') = <<>>
            /\ UNCHANGED <<phase, handle, isMosaic, bbox, metaDoc, meta_root,
                           metafile_out, exportFile, nReadMeta>>]_vars
    /\ [](call.op = "read_image" /\ call.outcome = "return" =>
            LET kw == call.args
                m == IF "M" \in DOMAIN kw THEN kw["M"] ELSE -1
                r == NativeReadSelected([k \in (DOMAIN kw) \cap Alphabet |-> kw[k]], m)
            IN  call.result = <<r.image, r.shape>>)

C10_Witness ==
    /\ FailedValidation(call)
    /\ meta_root.id # 0
    /\ metafile_out # ""
    /\ exportFile.exists

====
